---- MODULE Spec2Model ----
(***************************************************************************)
(* viper: a tracer built on the interpreter's trace hook (sys.settrace).   *)
(*                                                                         *)
(* State: the interpreter's global trace slot, the one trace_wrapper       *)
(* activation that may be running, the traced program's call stack and the *)
(* records handed to the writer.  One action per statement of              *)
(* trace_wrapper and per operation of the traced program.                  *)
(*                                                                         *)
(* The interpreter runs a trace function with tracing suspended, so a      *)
(* trace_wrapper activation is never entered while another one is running, *)
(* and it calls the global trace function for 'call' occurrences only: the *)
(* other occurrences of a frame go to the frame's local trace function,    *)
(* which is whatever the global trace function returned for that frame.    *)
(*                                                                         *)
(* The user's filter, transform and writer are arbitrary code: each may    *)
(* return or raise, may call stop_trace and may make further calls.  They  *)
(* are taken not to call start_trace themselves.                           *)
(*                                                                         *)
(* The frame of an occurrence is modelled on its own: the live frames of    *)
(* the stack it arrives on, the ViperFrame built from the traced frame,     *)
(* the walk of ViperFrame.parents up the f_back chain, statement by         *)
(* statement, and the mapping ViperChildFrame.transform returns.  A         *)
(* ViperFrame refers to its live frame by position in the stack, as the     *)
(* code keeps a reference to it and reads it again when asked for the       *)
(* arguments.                                                               *)
(***************************************************************************)
EXTENDS Integers, Sequences, FiniteSets, TLC

VARIABLES
  hook,         \* the sys.settrace slot: None, or the engine its trace_wrapper is bound to
  cb,           \* the running trace_wrapper activation (pc = "idle": none)
  frames,       \* the traced program's call stack, innermost last
  out,          \* the mappings the writer was called with, in order
  nocc,         \* occurrences delivered to a trace_wrapper so far
  missed,       \* history: an occurrence generated while a hook was installed was not delivered
  lastTrail,    \* history: the steps of the trace_wrapper activation that has just ended
  nkept,        \* history: occurrences for which filter returned a true value
  nlost,        \* history: kept occurrences whose transform raised
  cancelled,    \* history: stop_trace was invoked and start_trace has not been called since
  lastStarted,  \* history: the engine of the last start_trace the program called
  hist,         \* history: the last start_trace/stop_trace calls the program made in a row
  stack,        \* the live frames of one occurrence, stack base first, the traced frame last
  fpc,          \* where the handling of that occurrence by ViperChildFrame.transform stands
  snapshot,     \* the ViperFrame the Event of the occurrence holds
  tgt,          \* ViperFrame.parents: the frame handle the walk stands at
  parents,      \* ViperFrame.parents: the list collected so far
  record,       \* the mapping ViperChildFrame.transform returned
  captured,     \* history: what the live frame held when the snapshot was built
  seen          \* history: the <<callers, length of the parent chain>> pairs met so far

\* the variables of the frame snapshot and the parent walk
fvars == <<stack, fpc, snapshot, tgt, parents, record, captured, seen>>

\* the variables of the hook and the pipeline
hvars == <<hook, cb, frames, out, nocc, missed, lastTrail, nkept, nlost,
           cancelled, lastStarted, hist>>

vars == <<hvars, fvars>>

\* ---------------------------------------------------------------- bounds
MaxOcc == 2       \* occurrences delivered to a trace_wrapper
MaxNested == 1    \* calls a pipeline step makes while it runs
MaxDepth == 3     \* caller frames above the traced frame

\* ---------------------------------------------------------------- values
LoopCount == 10   \* range(10): the calls of c that a makes
None == "None"
Engines == {"A", "B"}
EventKinds == {"call", "line", "return", "exception", "c_call", "c_return", "c_exception"}
OtherKinds == {"opcode"}
ApiFns == {"start_trace", "stop_trace"}
UserFns == {"a", "c"}
Calls == {<<f, None>> : f \in UserFns} \cup {<<f, e>> : f \in ApiFns, e \in Engines}

Top(s) == s[Len(s)]
Pop(s) == SubSeq(s, 1, Len(s) - 1)

\* a live frame of the function fn, at the line of its def statement
DefLine(fn) ==
  CASE fn = "a" -> 283
    [] fn = "c" -> 284
    [] fn = "start_trace" -> 222
    [] fn = "stop_trace" -> 239
    [] OTHER -> 0
RawFrame(fn) == [co_name |-> fn, f_lineno |-> DefLine(fn), co_filename |-> "main.py"]

\* the extra value the interpreter passes with an occurrence of a kind
ArgOf(kind) == IF kind \in {"call", "line"} THEN None ELSE "value"

\* ---------------------------------------------------------------- frames and events
ViperFrame(frame) ==
  [frame |-> frame, fn_name |-> frame.co_name, fn_line |-> frame.f_lineno,
   fn_filename |-> frame.co_filename]

cheap_repr(arg) == <<"repr", arg>>

NoEvent == [cls |-> "none"]

ViperEventInit(cls, frame, event, arg) ==
  [cls |-> cls, frame |-> ViperFrame(frame), event |-> event, arg |-> cheap_repr(arg)]

ViperEventCExceptionInit(frame, event, arg) ==
  [cls |-> "ViperEventCException", frame |-> frame, event |-> event, arg |-> cheap_repr(arg)]

\* mutant: the final else of ViperEvent.new builds the last variant instead of raising
ViperEvent_new_noraise(frame, event, arg) ==
  IF event = "call" THEN ViperEventInit("ViperEventCall", frame, event, arg)
  ELSE IF event = "line" THEN ViperEventInit("ViperEventLine", frame, event, arg)
  ELSE IF event = "return" THEN ViperEventInit("ViperEventReturn", frame, event, arg)
  ELSE IF event = "exception" THEN ViperEventInit("ViperEventException", frame, event, arg)
  ELSE IF event = "c_call" THEN ViperEventInit("ViperEventCCall", frame, event, arg)
  ELSE IF event = "c_return" THEN ViperEventInit("ViperEventCReturn", frame, event, arg)
  ELSE ViperEventCExceptionInit(frame, event, arg)

\* ViperEvent.new: the Event built for a kind name, or "raise"
ViperEvent_new(frame, event, arg) ==
  IF event = "call" THEN ViperEventInit("ViperEventCall", frame, event, arg)
  ELSE IF event = "line" THEN ViperEventInit("ViperEventLine", frame, event, arg)
  ELSE IF event = "return" THEN ViperEventInit("ViperEventReturn", frame, event, arg)
  ELSE IF event = "exception" THEN ViperEventInit("ViperEventException", frame, event, arg)
  ELSE IF event = "c_call" THEN ViperEventInit("ViperEventCCall", frame, event, arg)
  ELSE IF event = "c_return" THEN ViperEventInit("ViperEventCReturn", frame, event, arg)
  ELSE IF event = "c_exception" THEN ViperEventCExceptionInit(frame, event, arg)
  ELSE [cls |-> "raise"]

\* ---------------------------------------------------------------- live frames
\* The functions whose frames an occurrence may have on its stack.  a, main and
\* the module are those of the test code (lines 283, 308, 315); f and g stand
\* for traced functions with several parameters, defaults and variadics.
Codes == {"<module>", "main", "a", "f", "g"}
CallerCodes == {"main", "a"}

Param(name, kind, default) == [name |-> name, kind |-> kind, default |-> default]

\* the parameters a function declares, in declaration order
Signature(fn) ==
  CASE fn = "a" -> <<Param("num", "positional", FALSE)>>
    [] fn = "f" -> <<Param("x", "positional", FALSE), Param("y", "positional", TRUE)>>
    [] fn = "g" -> <<Param("p", "positional", FALSE), Param("rest", "var", FALSE),
                     Param("k", "keyword", TRUE), Param("kw", "varkw", FALSE)>>
    [] OTHER -> <<>>

OfKind(sig, kind) == SelectSeq(sig, LAMBDA p : p.kind = kind)
Names(sig) == [i \in DOMAIN sig |-> sig[i].name]
Range(s) == {s[i] : i \in DOMAIN s}

\* the line a frame of fn stands at when the occurrence is delivered
LineOf(fn) ==
  CASE fn = "<module>" -> 315
    [] fn = "main" -> 312
    [] fn = "a" -> 283
    [] OTHER -> 1

\* the value a call binds to a parameter: the one passed, the default when none
\* was passed for a parameter that has one, the empty collection for a variadic
Bound(p, passed) ==
  CASE p.kind = "var" -> "()"
    [] p.kind = "varkw" -> "{}"
    [] p.default /\ ~passed -> "default"
    [] OTHER -> "1"

\* a live frame of fn: its code object (the local names in the compiler's
\* order: positional, keyword-only, *var, **varkw) and its local variables
LiveFrame(fn, passed) ==
  LET sig == Signature(fn) IN
  [co_name |-> fn, f_lineno |-> LineOf(fn), co_filename |-> "main.py",
   co_varnames |-> Names(OfKind(sig, "positional")) \o Names(OfKind(sig, "keyword"))
                   \o Names(OfKind(sig, "var")) \o Names(OfKind(sig, "varkw")),
   co_argcount |-> Len(OfKind(sig, "positional")),
   co_kwonlyargcount |-> Len(OfKind(sig, "keyword")),
   co_flags |-> {p.kind : p \in Range(sig)} \cap {"var", "varkw"},
   f_locals |-> [n \in Range(Names(sig)) |->
                   Bound(CHOOSE p \in Range(sig) : p.name = n, passed)]]

\* the call stacks of depth D: the module at the base, callers above it, and
\* the traced frame on top (alone on the stack when D = 0)
RECURSIVE CallerStacks(_)
CallerStacks(D) ==
  IF D = 0 THEN {<<>>}
  ELSE IF D = 1 THEN {<<LiveFrame("<module>", TRUE)>>}
  ELSE {Append(st, LiveFrame(fn, TRUE)) : st \in CallerStacks(D - 1), fn \in CallerCodes}

Stacks ==
  UNION {{Append(st, LiveFrame(fn, passed)) :
            st \in CallerStacks(D), fn \in Codes, passed \in BOOLEAN} : D \in 0..MaxDepth}

\* a frame handle is a position of the stack; NoFrame is the absent caller
NoFrame == 0
f_back(ref) == IF ref <= 1 THEN NoFrame ELSE ref - 1

\* the number of caller frames above the traced frame
Depth == Len(stack) - 1

NoSnapshot == [frame |-> NoFrame]
NoRecord == [type |-> "none"]

\* no occurrence is being transformed
NoWalk ==
  /\ stack = <<>>
  /\ fpc = "none"
  /\ snapshot = NoSnapshot
  /\ tgt = NoFrame
  /\ parents = <<>>
  /\ record = NoRecord
  /\ captured = NoRecord
  /\ seen = {}

\* ---------------------------------------------------------------- the hook
\* mutant: stop_trace leaves the installed callback in the slot
stop_trace_keeps(self) == self

\* mutant: stop_trace empties the slot only when its own engine is installed
stop_trace_owner(self) == IF hook = self THEN None ELSE hook

\* Viper.stop_trace: sys.settrace(None)
stop_trace(self) == None

\* Viper.start_trace: sys.settrace(trace_wrapper), the closure bound to self
start_trace(self) == self

\* mutant: trace_wrapper ends without reinstalling the hook
Reinstall_none(self) == None

\* mutant: trace_wrapper reinstalls one fixed engine instead of self
Reinstall_fixed(self) == "A"

\* line 235: trace_wrapper ends with self.start_trace()
Reinstall(self) == start_trace(self)

\* trace_wrapper has no return statement: the frame gets no local trace function
trace_wrapper_result(self) == None

Idle ==
  [pc |-> "idle", self |-> None, frame |-> RawFrame("a"), event |-> "call", arg |-> None,
   viper_event |-> NoEvent, trail |-> <<>>, nested |-> 0]

Activation(self, frame, event, arg) ==
  [pc |-> "stop", self |-> self, frame |-> frame, event |-> event, arg |-> arg,
   viper_event |-> NoEvent, trail |-> <<>>, nested |-> 0]

Init ==
  /\ hook = None
  /\ cb = Idle
  /\ frames = <<>>
  /\ out = <<>>
  /\ nocc = 0
  /\ missed = FALSE
  /\ lastTrail = <<>>
  /\ nkept = 0
  /\ nlost = 0
  /\ cancelled = FALSE
  /\ lastStarted = None
  /\ hist = <<>>
  /\ NoWalk

\* ---------------------------------------------------------------- transformers
\* ViperChildFrame.transform on a snapshot: the entries copied from the snapshot
\* (TransformDone adds those computed by parents and arguments)
ViperChildFrame_transform(vf) ==
  [type |-> "child-frame", fn_name |-> vf.fn_name, fn_line |-> vf.fn_line,
   fn_filename |-> vf.fn_filename]

\* ViperFrame.transform exists on a snapshot only: a raw frame has no such method
HasTransform(frame) == "fn_name" \in DOMAIN frame

\* SimpleSummary.transform: the mapping handed to the writer, or "raise"
SimpleSummary_transform(event) ==
  IF HasTransform(event.frame)
  THEN [event |-> event.event, frame |-> ViperChildFrame_transform(event.frame),
        arg |-> event.arg]
  ELSE [event |-> "raise"]

\* SimpleSummary.filter: a call event with a (truthy) frame
SimpleSummary_filter(event) ==
  IF event.cls = "ViperEventCall" THEN "true" ELSE "false"

\* ---------------------------------------------------------------- trace_wrapper
InStep == cb.pc \in {"filter", "transform", "writer"}

\* line 225: self.stop_trace()
CbStop ==
  /\ cb.pc = "stop"
  /\ hook' = stop_trace(cb.self)
  /\ cb' = [cb EXCEPT !.pc = "classify", !.trail = Append(@, "stop_trace")]
  /\ lastTrail' = <<>>
  /\ UNCHANGED <<frames, out, nocc, missed, nkept, nlost, cancelled, lastStarted, hist>>
  /\ UNCHANGED fvars

\* line 228: viper_event = ViperEvent.new(frame, event, arg), then line 231 calls filter
CbClassify ==
  /\ cb.pc = "classify"
  /\ LET ev == ViperEvent_new(cb.frame, cb.event, cb.arg) IN
       cb' = IF ev.cls = "raise"
             THEN [cb EXCEPT !.pc = "raised", !.trail = Append(@, "new")]
             ELSE [cb EXCEPT !.pc = "filter", !.viper_event = ev,
                             !.trail = @ \o <<"new", "filter">>]
  /\ UNCHANGED <<hook, frames, out, nocc, missed, lastTrail, nkept, nlost, cancelled,
                 lastStarted, hist>>
  /\ UNCHANGED fvars

\* mutant: line 233 runs whatever filter returned
FilterReturn_ungated(r) ==
  /\ cb.pc = "filter"
  /\ cb' = IF r = "raise" THEN [cb EXCEPT !.pc = "raised"]
           ELSE [cb EXCEPT !.pc = "transform", !.trail = @ \o <<r, "transform">>]
  /\ nkept' = IF r = "true" THEN nkept + 1 ELSE nkept
  /\ UNCHANGED <<hook, frames, out, nocc, missed, lastTrail, nlost, cancelled,
                 lastStarted, hist>>
  /\ UNCHANGED fvars

\* line 231: filter returns r; a true value calls transform (line 233)
FilterReturn(r) ==
  /\ cb.pc = "filter"
  /\ cb' = IF r = "true"
           THEN [cb EXCEPT !.pc = "transform", !.trail = @ \o <<"true", "transform">>]
           ELSE IF r = "false" THEN [cb EXCEPT !.pc = "restart", !.trail = Append(@, "false")]
           ELSE [cb EXCEPT !.pc = "raised"]
  /\ nkept' = IF r = "true" THEN nkept + 1 ELSE nkept
  /\ UNCHANGED <<hook, frames, out, nocc, missed, lastTrail, nlost, cancelled,
                 lastStarted, hist>>
  /\ UNCHANGED fvars

\* line 233: transform returns (ok) or raises; its result is passed to writer
TransformReturn(ok) ==
  /\ cb.pc = "transform"
  /\ LET m == SimpleSummary_transform(cb.viper_event) IN
       IF ok /\ m.event # "raise"
       THEN /\ cb' = [cb EXCEPT !.pc = "writer", !.trail = Append(@, "writer")]
            /\ out' = Append(out, m)
            /\ nlost' = nlost
       ELSE /\ cb' = [cb EXCEPT !.pc = "raised"]
            /\ out' = out
            /\ nlost' = nlost + 1
  /\ UNCHANGED <<hook, frames, nocc, missed, lastTrail, nkept, cancelled, lastStarted, hist>>
  /\ UNCHANGED fvars

\* line 233: writer returns (ok) or raises
WriterReturn(ok) ==
  /\ cb.pc = "writer"
  /\ cb' = [cb EXCEPT !.pc = IF ok THEN "restart" ELSE "raised"]
  /\ UNCHANGED <<hook, frames, out, nocc, missed, lastTrail, nkept, nlost, cancelled,
                 lastStarted, hist>>
  /\ UNCHANGED fvars

\* the traced call goes on into the function's body, with the local trace
\* function trace_wrapper returned
Traced(fs, f_trace) ==
  IF fs # <<>> /\ Top(fs).phase = "tracing"
  THEN [fs EXCEPT ![Len(fs)].phase = "body", ![Len(fs)].f_trace = f_trace]
  ELSE fs

\* line 235: self.start_trace(), then the function ends
CbRestart ==
  /\ cb.pc = "restart"
  /\ hook' = Reinstall(cb.self)
  /\ cb' = Idle
  /\ lastTrail' = Append(cb.trail, "start_trace")
  /\ frames' = Traced(frames, trace_wrapper_result(cb.self))
  /\ UNCHANGED <<out, nocc, missed, nkept, nlost, cancelled, lastStarted, hist>>
  /\ UNCHANGED fvars

\* the last two start_trace/stop_trace calls made in a row
Last2(h) == IF Len(h) > 2 THEN SubSeq(h, Len(h) - 1, Len(h)) ELSE h

\* a finished start_trace/stop_trace call: how it ended, and whether it changed
\* the slot or was itself processed as an occurrence
ApiDone(f, result, before, after) ==
  [op |-> f.fn, self |-> f.self, result |-> result,
   changed |-> (f.traced \/ before # after)]

\* mutant: line 235 sits in a finally clause, so it runs when a step raises too
Propagate_finally ==
  /\ cb.pc = "raised"
  /\ cb' = Idle
  /\ hook' = start_trace(cb.self)
  /\ lastTrail' = Append(cb.trail, "raise")
  /\ frames' = IF frames # <<>> /\ Top(frames).phase = "tracing" THEN Pop(frames) ELSE frames
  /\ UNCHANGED <<out, nocc, missed, nkept, nlost, cancelled, lastStarted, hist>>
  /\ UNCHANGED fvars

\* lines 224-235 hold no try: an exception leaves trace_wrapper before line 235
\* and propagates into the call being traced, which is abandoned
Propagate ==
  /\ cb.pc = "raised"
  /\ cb' = Idle
  /\ lastTrail' = Append(cb.trail, "raise")
  /\ IF frames # <<>> /\ Top(frames).phase = "tracing"
     THEN /\ frames' = Pop(frames)
          /\ hist' = IF Top(frames).fn \in ApiFns
                     THEN Last2(Append(hist, ApiDone(Top(frames), "raised", hook, hook)))
                     ELSE hist
     ELSE UNCHANGED <<frames, hist>>
  /\ UNCHANGED <<hook, out, nocc, missed, nkept, nlost, cancelled, lastStarted>>
  /\ UNCHANGED fvars

\* a pipeline step calls self.stop_trace() (line 241) while it runs
StepStop ==
  /\ InStep
  /\ ~cancelled
  /\ hook' = stop_trace(cb.self)
  /\ cancelled' = TRUE
  /\ UNCHANGED <<cb, frames, out, nocc, missed, lastTrail, nkept, nlost, lastStarted, hist>>
  /\ UNCHANGED fvars

\* a pipeline step makes a call of its own: tracing is suspended while a trace
\* function runs, so no occurrence is delivered for it
NestedCall ==
  /\ InStep
  /\ cb.nested < MaxNested
  /\ cb' = [cb EXCEPT !.nested = @ + 1]
  /\ UNCHANGED <<hook, frames, out, nocc, missed, lastTrail, nkept, nlost, cancelled,
                 lastStarted, hist>>
  /\ UNCHANGED fvars

\* ---------------------------------------------------------------- the traced program
\* a calls c once per iteration of its loop (lines 287-288); everything else is
\* called from the top level, as main does (lines 311-313)
CanCall(fn) ==
  /\ cb.pc = "idle"
  /\ IF fn = "c"
     THEN /\ frames # <<>>
          /\ Top(frames).fn = "a"
          /\ Top(frames).phase = "body"
          /\ Top(frames).step < LoopCount
     ELSE IF frames = <<>> THEN TRUE ELSE Top(frames).fn = "main"

\* the caller has made one more call of its body
Stepped(fs) == IF fs = <<>> THEN fs ELSE [fs EXCEPT ![Len(fs)].step = @ + 1]

InBody ==
  /\ cb.pc = "idle"
  /\ frames # <<>>
  /\ Top(frames).phase = "body"

\* fn is called: a 'call' occurrence, delivered to the global trace function
Call(fn, self) ==
  /\ CanCall(fn)
  /\ nocc' = IF hook # None THEN nocc + 1 ELSE nocc
  /\ frames' = Append(Stepped(frames),
       [fn |-> fn, self |-> self, phase |-> IF hook # None THEN "tracing" ELSE "body",
        f_trace |-> None, traced |-> hook # None, step |-> 0])
  /\ cb' = IF hook # None THEN Activation(hook, RawFrame(fn), "call", ArgOf("call")) ELSE cb
  /\ hist' = IF fn \in ApiFns THEN hist ELSE <<>>
  /\ lastTrail' = <<>>
  /\ UNCHANGED <<hook, out, missed, nkept, nlost, cancelled, lastStarted>>
  /\ UNCHANGED fvars

\* the traced program calls fn
HostCall(fn, self) ==
  /\ hook # None => nocc < MaxOcc
  /\ Call(fn, self)

\* line 237 / line 241: the body of start_trace or stop_trace, and its return
HostApiBody ==
  /\ InBody
  /\ Top(frames).fn \in ApiFns
  /\ LET f == Top(frames)
         h == IF f.fn = "start_trace" THEN start_trace(f.self) ELSE stop_trace(f.self)
     IN /\ hook' = h
        /\ cancelled' = (f.fn = "stop_trace")
        /\ lastStarted' = IF f.fn = "start_trace" THEN f.self ELSE lastStarted
        /\ hist' = Last2(Append(hist, ApiDone(f, "ok", hook, h)))
  /\ frames' = Pop(frames)
  /\ lastTrail' = <<>>
  /\ UNCHANGED <<cb, out, nocc, missed, nkept, nlost>>
  /\ UNCHANGED fvars

\* an occurrence of the frame's own (line, exception, return): delivered to the
\* frame's local trace function, if it has one
Local(f, kind) ==
  /\ f.f_trace # None => nocc < MaxOcc
  /\ nocc' = IF f.f_trace # None THEN nocc + 1 ELSE nocc
  /\ missed' = (missed \/ (hook # None /\ f.f_trace = None))
  /\ cb' = IF f.f_trace # None
           THEN Activation(f.f_trace, RawFrame(f.fn), kind, ArgOf(kind)) ELSE cb
  /\ lastTrail' = <<>>

\* a line of the running function executes, or an exception passes through it
HostLine(kind) ==
  /\ InBody
  /\ Top(frames).fn \in UserFns
  /\ Local(Top(frames), kind)
  /\ UNCHANGED <<hook, frames, out, nkept, nlost, cancelled, lastStarted, hist>>
  /\ UNCHANGED fvars

\* the running function returns: c at once (line 285), a after its loop (line 290)
HostReturn ==
  /\ InBody
  /\ Top(frames).fn \in UserFns
  /\ Top(frames).fn = "a" => Top(frames).step = LoopCount
  /\ Local(Top(frames), "return")
  /\ frames' = Pop(frames)
  /\ UNCHANGED <<hook, out, nkept, nlost, cancelled, lastStarted, hist>>
  /\ UNCHANGED fvars

\* the installed callback is handed an occurrence of any kind name
Invoke(kind) ==
  /\ cb.pc = "idle"
  /\ hook # None
  /\ nocc < MaxOcc
  /\ nocc' = nocc + 1
  /\ cb' = Activation(hook, RawFrame("a"), kind, ArgOf(kind))
  /\ hist' = <<>>
  /\ lastTrail' = <<>>
  /\ UNCHANGED <<hook, frames, out, missed, nkept, nlost, cancelled, lastStarted>>
  /\ UNCHANGED fvars

\* ---------------------------------------------------------------- snapshot and parent walk
\* line 25: a ViperFrame keeps a reference to the live frame, not a copy of it
Snapshot(ref) == [ViperFrame(stack[ref]) EXCEPT !.frame = ref]

\* mutant: the keyword-only parameters are left out of the named ones
getargvalues_positional(frame) ==
  [args |-> SubSeq(frame.co_varnames, 1, frame.co_argcount),
   varargs |-> "var" \in frame.co_flags,
   keywords |-> "varkw" \in frame.co_flags,
   locals |-> frame.f_locals]

\* line 34, inspect.getargvalues(frame): the named parameters (the first
\* co_argcount + co_kwonlyargcount local names), whether there is a *var and a
\* **varkw, and the frame's local variables as they are now
getargvalues(frame) ==
  [args |-> SubSeq(frame.co_varnames, 1, frame.co_argcount + frame.co_kwonlyargcount),
   varargs |-> "var" \in frame.co_flags,
   keywords |-> "varkw" \in frame.co_flags,
   locals |-> frame.f_locals]

\* lines 33-40, ViperFrame.arguments: the ordered mapping of each name of
\* argInfo.args to the summary of its value, read from the live frame
arguments(self) ==
  LET argInfo == getargvalues(stack[self.frame]) IN
  [i \in DOMAIN argInfo.args |->
     <<argInfo.args[i], cheap_repr(argInfo.locals[argInfo.args[i]])>>]

\* ViperParentFrame.transform on a snapshot (the time and epoch entries, read
\* from the clock, are left out)
ViperParentFrame_transform(frame) ==
  [type |-> "parent-frame", fn_name |-> frame.fn_name, fn_line |-> frame.fn_line,
   fn_filename |-> frame.fn_filename]

\* what the live frame of a snapshot holds now
LiveValues(snap) ==
  [fn_name |-> stack[snap.frame].co_name, fn_line |-> stack[snap.frame].f_lineno,
   fn_filename |-> stack[snap.frame].co_filename, args |-> arguments(snap)]

\* line 228: ViperEvent.new builds the Event, whose constructor builds the
\* ViperFrame of the traced frame (line 104)
Capture ==
  /\ fpc = "live"
  /\ fpc' = "captured"
  /\ snapshot' = Snapshot(Len(stack))
  /\ captured' = LiveValues(Snapshot(Len(stack)))
  /\ UNCHANGED <<stack, tgt, parents, record, seen>>
  /\ UNCHANGED hvars

\* the live traced frame after a step changed its current line or the value of
\* its first named argument
Changed(st, change) ==
  LET args == getargvalues(Top(st)).args IN
  IF change = "line" THEN [st EXCEPT ![Len(st)].f_lineno = @ + 1]
  ELSE IF change = "arg" /\ args # <<>>
       THEN [st EXCEPT ![Len(st)].f_locals[args[1]] = "changed"]
       ELSE st

\* line 231: filter runs with the Event, and with it the live frame, in hand
FilterStep(change) ==
  /\ fpc = "captured"
  /\ fpc' = "filtered"
  /\ stack' = Changed(stack, change)
  /\ UNCHANGED <<snapshot, tgt, parents, record, captured, seen>>
  /\ UNCHANGED hvars

\* mutant: the walk starts at the traced frame itself, so the immediate caller
\* is collected too
TransformStart_self ==
  /\ fpc = "filtered"
  /\ fpc' = "walk"
  /\ parents' = <<>>
  /\ tgt' = snapshot.frame
  /\ UNCHANGED <<stack, snapshot, record, captured, seen>>
  /\ UNCHANGED hvars

\* line 298 calls event.frame.transform(ViperChildFrame), which calls
\* frame.parents(ViperParentFrame) (line 269): parents = [], tgt = self.frame.f_back
TransformStart ==
  /\ fpc = "filtered"
  /\ fpc' = "walk"
  /\ parents' = <<>>
  /\ tgt' = f_back(snapshot.frame)
  /\ UNCHANGED <<stack, snapshot, record, captured, seen>>
  /\ UNCHANGED hvars

\* mutant: the frame the walk stands at is collected before the walk moves on
WalkIter_noskip ==
  /\ fpc = "walk"
  /\ IF tgt = NoFrame
     THEN /\ fpc' = "walked"
          /\ UNCHANGED <<tgt, parents>>
     ELSE /\ parents' = Append(parents, ViperParentFrame_transform(Snapshot(tgt)))
          /\ tgt' = f_back(tgt)
          /\ fpc' = fpc
  /\ UNCHANGED <<stack, snapshot, record, captured, seen>>
  /\ UNCHANGED hvars

\* mutant: an absent caller of the frame the walk stands at is an error
WalkIter_raises ==
  /\ fpc = "walk"
  /\ IF tgt = NoFrame
     THEN /\ fpc' = "walked"
          /\ UNCHANGED <<tgt, parents>>
     ELSE IF f_back(tgt) = NoFrame
     THEN /\ fpc' = "raised"
          /\ tgt' = NoFrame
          /\ parents' = parents
     ELSE /\ tgt' = f_back(tgt)
          /\ parents' = Append(parents, ViperParentFrame_transform(Snapshot(f_back(tgt))))
          /\ fpc' = fpc
  /\ UNCHANGED <<stack, snapshot, record, captured, seen>>
  /\ UNCHANGED hvars

\* lines 48-56, one turn of the loop: leave if tgt is None; move to its caller;
\* leave if that is None; collect the caller's transformed snapshot
WalkIter ==
  /\ fpc = "walk"
  /\ IF tgt = NoFrame
     THEN /\ fpc' = "walked"
          /\ UNCHANGED <<tgt, parents>>
     ELSE IF f_back(tgt) = NoFrame
     THEN /\ fpc' = "walked"
          /\ tgt' = NoFrame
          /\ parents' = parents
     ELSE /\ tgt' = f_back(tgt)
          /\ parents' = Append(parents, ViperParentFrame_transform(Snapshot(f_back(tgt))))
          /\ fpc' = fpc
  /\ UNCHANGED <<stack, snapshot, record, captured, seen>>
  /\ UNCHANGED hvars

\* lines 267-278: the mapping of the traced frame, with the chain line 58
\* returned and the arguments read now (line 273)
TransformDone ==
  /\ fpc = "walked"
  /\ fpc' = "done"
  /\ record' = [parents |-> parents, args |-> <<arguments(snapshot)>>]
                 @@ ViperChildFrame_transform(snapshot)
  /\ seen' = seen \cup {<<Depth, Len(parents)>>}
  /\ UNCHANGED <<stack, snapshot, tgt, parents, captured>>
  /\ UNCHANGED hvars

\* the next occurrence, on a stack of its own
NextOccurrence ==
  /\ fpc = "done"
  /\ fpc' = "live"
  /\ stack' \in Stacks
  /\ snapshot' = NoSnapshot
  /\ tgt' = NoFrame
  /\ parents' = <<>>
  /\ record' = NoRecord
  /\ captured' = NoRecord
  /\ UNCHANGED seen
  /\ UNCHANGED hvars

\* ---------------------------------------------------------------- specifications
Next ==
  \/ CbStop
  \/ CbClassify
  \/ \E r \in {"true", "false", "raise"} : FilterReturn(r)
  \/ \E ok \in BOOLEAN : TransformReturn(ok)
  \/ \E ok \in BOOLEAN : WriterReturn(ok)
  \/ CbRestart
  \/ Propagate
  \/ StepStop
  \/ NestedCall
  \/ \E c \in Calls : HostCall(c[1], c[2])
  \/ HostApiBody
  \/ \E k \in {"line", "exception"} : HostLine(k)
  \/ HostReturn

Spec == Init /\ [][Next]_vars

\* the callback as a handler of whatever occurrence it is handed
NextCallback ==
  \/ Next
  \/ \E k \in EventKinds \cup OtherKinds : Invoke(k)

SpecCallback == Init /\ [][NextCallback]_vars

\* ---------------------------------------------------------------- the default filter
\* lines 210-212: Viper.filter, the filter of an engine that was given none
Viper_filter(event) == "raise"

DefaultFilter ==
  /\ cb.pc = "filter"
  /\ FilterReturn(Viper_filter(cb.viper_event))

\* the engines are plain Vipers: an occurrence gets as far as the filter
NextDefault ==
  \/ CbStop
  \/ CbClassify
  \/ DefaultFilter
  \/ Propagate
  \/ \E c \in Calls : HostCall(c[1], c[2])
  \/ HostApiBody
  \/ \E k \in {"line", "exception"} : HostLine(k)
  \/ HostReturn

SpecDefault == Init /\ [][NextDefault]_vars

\* ---------------------------------------------------------------- one occurrence's frame
\* the snapshot, the walk and the transformation of the frame of an occurrence,
\* for each stack an occurrence can arrive on
InitFrame ==
  /\ hook = None
  /\ cb = Idle
  /\ frames = <<>>
  /\ out = <<>>
  /\ nocc = 0
  /\ missed = FALSE
  /\ lastTrail = <<>>
  /\ nkept = 0
  /\ nlost = 0
  /\ cancelled = FALSE
  /\ lastStarted = None
  /\ hist = <<>>
  /\ stack \in Stacks
  /\ fpc = "live"
  /\ snapshot = NoSnapshot
  /\ tgt = NoFrame
  /\ parents = <<>>
  /\ record = NoRecord
  /\ captured = NoRecord
  /\ seen = {}

NextWalk ==
  \/ Capture
  \/ \E change \in {"none", "line", "arg"} : FilterStep(change)
  \/ TransformStart
  \/ WalkIter
  \/ TransformDone

NextFrame ==
  \/ NextWalk
  \/ NextOccurrence

SpecFrame == InitFrame /\ [][NextFrame]_vars

\* trace_wrapper runs to its end once called: each statement of the
\* transformation is executed in turn
SpecWalk ==
  /\ InitFrame
  /\ [][NextWalk]_vars
  /\ WF_vars(TransformStart)
  /\ WF_vars(WalkIter)
  /\ WF_vars(TransformDone)

\* ---------------------------------------------------------------- main()
\* lines 308-313: viper = SimpleSummary(); viper.start_trace(); a(1); viper.stop_trace()
MainFrame ==
  [fn |-> "main", self |-> None, phase |-> "body", f_trace |-> None, traced |-> FALSE,
   step |-> 0]

InitMain ==
  /\ hook = None
  /\ cb = Idle
  /\ frames = <<MainFrame>>
  /\ out = <<>>
  /\ nocc = 0
  /\ missed = FALSE
  /\ lastTrail = <<>>
  /\ nkept = 0
  /\ nlost = 0
  /\ cancelled = FALSE
  /\ lastStarted = None
  /\ hist = <<>>
  /\ NoWalk

MainCall ==
  /\ frames # <<>>
  /\ \/ Top(frames).fn = "main" /\ Top(frames).step = 0 /\ Call("start_trace", "A")
     \/ Top(frames).fn = "main" /\ Top(frames).step = 1 /\ Call("a", None)
     \/ Top(frames).fn = "a" /\ Call("c", None)
     \/ Top(frames).fn = "main" /\ Top(frames).step = 2 /\ Call("stop_trace", "A")

\* lines 294-295: the filter of a SimpleSummary
MainFilter ==
  /\ cb.pc = "filter"
  /\ FilterReturn(SimpleSummary_filter(cb.viper_event))

\* the engine is a SimpleSummary: its filter and transform, and the default writer
NextMain ==
  \/ MainCall
  \/ HostApiBody
  \/ HostLine("line")
  \/ HostReturn
  \/ CbStop
  \/ CbClassify
  \/ MainFilter
  \/ TransformReturn(TRUE)
  \/ WriterReturn(TRUE)
  \/ NestedCall
  \/ CbRestart

SpecMain == InitMain /\ [][NextMain]_vars

\* ---------------------------------------------------------------- properties
Has(t, x) == \E i \in DOMAIN t : t[i] = x
Count(t, x) == Cardinality({i \in DOMAIN t : t[i] = x})
Before(t, x, y) == \A j \in DOMAIN t : t[j] = y => \E i \in 1..(j - 1) : t[i] = x
Ended(t) == t # <<>> /\ Top(t) \in {"start_trace", "raise"}

\* C1: once trace_wrapper has run its first statement and until it ends, the
\* trace slot is empty, whatever calls the pipeline steps make meanwhile.
C1_SlotEmptyWhileProcessing ==
  cb.pc \in {"classify", "filter", "transform", "writer", "restart", "raised"} => hook = None

C1_Witness == cb.pc = "transform" /\ cb.nested > 0 /\ hook = None

\* C2: an activation whose steps do not raise uninstalls the hook before any
\* step and ends by installing the callback of its own engine.
C2_UninstallThenReinstall ==
  [][(cb.pc \notin {"idle", "raised"} /\ cb'.pc = "idle")
       => /\ cb.pc = "restart"
          /\ hook = None
          /\ hook' = cb.self
          /\ lastTrail'[1] = "stop_trace"
          /\ Top(lastTrail') = "start_trace"]_vars

C2_Witness ==
  /\ cb.pc = "idle"
  /\ lastTrail = <<"stop_trace", "new", "filter", "true", "transform", "writer", "start_trace">>
  /\ hook \in Engines

\* the body of start_trace runs and installs its engine
StartBodyRuns ==
  /\ frames # <<>>
  /\ Top(frames).fn = "start_trace"
  /\ Top(frames).phase = "body"
  /\ hook' = Top(frames).self

\* C3: when classification, filter, transform or writer raises, the slot is
\* already empty, the activation ends without reinstalling, and from then on no
\* occurrence is processed until the body of start_trace runs again.
C3_RaiseLeavesStopped ==
  /\ [](cb.pc = "raised" => hook = None)
  /\ [][(cb.pc = "raised" /\ cb'.pc = "idle") => hook' = None]_vars
  /\ [][(cb.pc = "idle" /\ hook = None)
          => (cb'.pc = "idle" /\ (hook' # None => StartBodyRuns))]_vars

C3_Witness ==
  /\ cb.pc = "idle"
  /\ lastTrail = <<"stop_trace", "new", "raise">>
  /\ hook = None

\* C4 (as claimed): an occurrence never begins to be processed after stop_trace
\* was invoked and before start_trace is called again.
C4_StopCancels == cb.pc = "stop" => ~cancelled

\* the order of the stages within one activation
StageOrder(t) ==
  /\ Count(t, "filter") <= 1
  /\ Count(t, "transform") <= 1
  /\ Count(t, "writer") <= 1
  /\ Before(t, "filter", "transform")
  /\ Before(t, "transform", "writer")
  /\ Has(t, "transform") => Has(t, "true")
  /\ Has(t, "false") => ~Has(t, "transform") /\ ~Has(t, "writer")
  /\ (Ended(t) /\ Count(t, "new") = 1 /\ Has(t, "filter")) => Count(t, "filter") = 1

WriterGetsTransformResult ==
  cb.pc = "writer" =>
    /\ out # <<>>
    /\ Top(out) = SimpleSummary_transform(cb.viper_event)

\* C5 (as claimed): filter once, before transform and writer; a false value
\* stops there; a true value means transform once and writer once with its
\* result; as many writer calls as kept occurrences.
C5_KeptIsWritten ==
  /\ StageOrder(cb.trail)
  /\ StageOrder(lastTrail)
  /\ WriterGetsTransformResult
  /\ (Ended(lastTrail) /\ Has(lastTrail, "true"))
       => (Count(lastTrail, "transform") = 1 /\ Count(lastTrail, "writer") = 1)
  /\ cb.pc = "idle" => Len(out) = nkept

\* C5 (amended): the same, except that writer is called only if transform
\* returns: a kept occurrence whose transform raised is not written.
C5_KeptIsWrittenUnlessTransformRaises ==
  /\ StageOrder(cb.trail)
  /\ StageOrder(lastTrail)
  /\ WriterGetsTransformResult
  /\ (Ended(lastTrail) /\ Has(lastTrail, "true"))
       => /\ Count(lastTrail, "transform") = 1
          /\ \/ Count(lastTrail, "writer") = 1
             \/ SubSeq(lastTrail, Len(lastTrail) - 1, Len(lastTrail)) = <<"transform", "raise">>
  /\ cb.pc = "idle" => Len(out) = nkept - nlost

C5_Witness == cb.pc = "idle" /\ nkept = 2 /\ nlost = 1 /\ Len(out) = 1

\* C6 (as claimed): main() writes eleven records: a, then c ten times.
MainDone ==
  /\ cb.pc = "idle"
  /\ Len(frames) = 1
  /\ Top(frames).fn = "main"
  /\ Top(frames).step = 3

C6_ElevenRecords ==
  MainDone =>
    /\ Len(out) = LoopCount + 1
    /\ \A i \in DOMAIN out : out[i].frame.fn_name = IF i = 1 THEN "a" ELSE "c"

\* C7 (as claimed): stop, stop leaves the slot empty and the second call changes
\* nothing; start, start on one engine raises nothing and leaves it installed.
C7_Idempotent ==
  (cb.pc = "idle" /\ frames = <<>> /\ Len(hist) = 2) =>
    /\ (hist[1].op = "stop_trace" /\ hist[2].op = "stop_trace")
         => (hook = None /\ ~hist[2].changed)
    /\ (hist[1].op = "start_trace" /\ hist[2].op = "start_trace"
        /\ hist[1].self = hist[2].self)
         => (hist[2].result = "ok" /\ hook = hist[2].self)

\* the variant ViperEvent.new is to build for each kind name
VariantFor(kind) ==
  CASE kind = "call" -> "ViperEventCall"
    [] kind = "line" -> "ViperEventLine"
    [] kind = "return" -> "ViperEventReturn"
    [] kind = "exception" -> "ViperEventException"
    [] kind = "c_call" -> "ViperEventCCall"
    [] kind = "c_return" -> "ViperEventCReturn"
    [] kind = "c_exception" -> "ViperEventCException"
    [] OTHER -> "none"

\* C8: for each of the seven kind names ViperEvent.new builds one Event of that
\* kind's variant, tagged with the kind name; for any other name it raises and
\* builds none.
C8_Classification ==
  cb.pc \notin {"idle", "stop", "classify"} =>
    IF cb.event \in EventKinds
    THEN /\ cb.viper_event.cls = VariantFor(cb.event)
         /\ cb.viper_event.event = cb.event
         /\ Count(cb.trail, "new") = 1
    ELSE /\ cb.pc = "raised"
         /\ cb.viper_event = NoEvent

C8_Witness == cb.pc = "filter" /\ cb.event = "c_exception"

\* C9 (as claimed): every occurrence generated while a hook is installed is
\* delivered to the engine.
C9_EveryOccurrenceDelivered == ~missed

\* C10: the slot holds at most one engine's callback, and only the engine
\* whose start_trace was called last is installed or receives occurrences.
C10_LastStartedOnly ==
  /\ hook \in Engines \cup {None}
  /\ hook # None => hook = lastStarted
  /\ cb.pc # "idle" => cb.self = lastStarted

C10_Witness ==
  /\ cb.pc = "idle"
  /\ hook = "B"
  /\ Len(hist) = 2
  /\ hist[1] = [op |-> "start_trace", self |-> "A", result |-> "ok", changed |-> TRUE]
  /\ hist[2].op = "start_trace" /\ hist[2].self = "B" /\ hist[2].result = "ok"
  /\ frames # <<>>
  /\ Top(frames).fn = "stop_trace" /\ Top(frames).traced /\ Top(frames).phase = "body"

\* C11 (as claimed): there is one skip constant k, the same for every depth D
\* from 0 on, such that the chain ViperFrame.parents returns for a frame with D
\* callers has length D - k.
C11_LengthIsDepthMinusK ==
  \E k \in 0..(MaxDepth + 1) : \A p \in seen : p[2] = p[1] - k

\* C11 (amended): the chain has length D - 1 for every D from 1 on and length 0
\* for D = 0, and a stack of the same depth always gives the same length.
C11_LengthIsDepthMinusOneFromOne ==
  /\ \A p \in seen : p[2] = IF p[1] = 0 THEN 0 ELSE p[1] - 1
  /\ \A p, q \in seen : p[1] = q[1] => p[2] = q[2]
  /\ fpc = "done" => <<Depth, Len(record.parents)>> \in seen

C11_Witness == {<<0, 0>>, <<1, 0>>, <<3, 2>>} \subseteq seen

\* C12 (as claimed): the name, line, file and argument mapping the snapshot
\* puts into the written record are those the live frame had when the Event was
\* built, whatever happened to the live frame's line or arguments since.
C12_SnapshotImmutable ==
  fpc = "done" =>
    /\ record.fn_name = captured.fn_name
    /\ record.fn_line = captured.fn_line
    /\ record.fn_filename = captured.fn_filename
    /\ record.args = <<captured.args>>

\* the names of the named parameters a function declares, in declaration order
DeclaredNames(fn) ==
  Names(SelectSeq(Signature(fn), LAMBDA p : p.kind \in {"positional", "keyword"}))

\* C13: the keys of the argument mapping are the argument names the frame's
\* function declares, in declaration order, for no, one or several arguments,
\* with or without defaults, and each value is the summary of the argument's
\* current value.
C13_ArgumentKeys ==
  fpc = "done" =>
    LET decl == DeclaredNames(Top(stack).co_name) IN
    /\ Len(record.args) = 1
    /\ Len(record.args[1]) = Len(decl)
    /\ \A i \in DOMAIN decl :
         record.args[1][i] = <<decl[i], cheap_repr(Top(stack).f_locals[decl[i]])>>

C13_Witness ==
  /\ fpc = "done"
  /\ Top(stack).co_name = "g"
  /\ record.args = << <<(<<"p", cheap_repr("changed")>>), (<<"k", cheap_repr("default")>>)>> >>

\* the j-th caller of the traced frame, the nearest being the first
Caller(j) == stack[Len(stack) - j]

\* C16: for callers p1 .. pD, nearest first, ViperFrame.parents returns the
\* transformed snapshots of p2 .. pD in that order, and the empty list when D
\* is 0 or 1.
C16_ParentsAreCallersFromSecond ==
  fpc \in {"walked", "done"} =>
    /\ Len(parents) = IF Depth <= 1 THEN 0 ELSE Depth - 1
    /\ \A i \in DOMAIN parents :
         parents[i] = [type |-> "parent-frame", fn_name |-> Caller(i + 1).co_name,
                       fn_line |-> Caller(i + 1).f_lineno,
                       fn_filename |-> Caller(i + 1).co_filename]
    /\ fpc = "done" => record.parents = parents

C16_Witness ==
  /\ fpc = "done"
  /\ Depth = 3
  /\ Len(record.parents) = 2
  /\ record.parents[1].fn_name = Caller(2).co_name
  /\ record.parents[2].fn_name = "<module>"

\* C17: the walk ends on every stack, and an absent caller, at the first step
\* or later, ends it with the chain collected so far and without an error, so
\* that the frame's mapping is built.
C17_WalkTerminates ==
  /\ [](fpc # "raised")
  /\ [](fpc = "walk" => tgt \in 0..Len(stack))
  /\ (fpc = "walk") ~> (fpc = "done" /\ record.parents = parents /\ tgt = NoFrame)

C17_Witness ==
  /\ fpc = "done"
  /\ Depth = 2
  /\ tgt = NoFrame
  /\ Len(record.parents) = 1

\* C14 (as claimed): an engine with the default filter rejects every
\* occurrence: nothing is transformed or written, no error is raised, and the
\* activation ends with the engine installed again.
C14_DefaultFilterRejects ==
  /\ out = <<>>
  /\ ~Has(cb.trail, "transform")
  /\ cb.pc # "raised"
  /\ (cb.pc = "idle" /\ Has(lastTrail, "filter"))
       => (Top(lastTrail) = "start_trace" /\ hook = lastStarted)

\* C15 (as claimed): the Event built for each of the seven kinds holds a
\* ViperFrame snapshot of the raw frame, never the raw frame, and the summary
\* of the payload.
C15_EveryVariantOwnsSnapshot ==
  cb.viper_event # NoEvent =>
    /\ cb.viper_event.frame = ViperFrame(cb.frame)
    /\ HasTransform(cb.viper_event.frame)
    /\ cb.viper_event.arg = cheap_repr(cb.arg)

\* a call of stop_trace is the innermost frame
StopFrame == frames # <<>> /\ Top(frames).fn = "stop_trace"

\* C18: a call of stop_trace made while a hook is installed is delivered to the
\* installed engine as a call occurrence of stop_trace and written if kept;
\* the hook is installed again when the body of stop_trace starts; and when
\* stop_trace returns the slot is empty.
C18_StopIsTracedThenStops ==
  /\ [][(hook # None /\ Len(frames') = Len(frames) + 1 /\ Top(frames').fn = "stop_trace")
          => /\ Top(frames').traced
             /\ cb'.pc = "stop"
             /\ cb'.self = hook
             /\ cb'.frame = RawFrame("stop_trace")
             /\ cb'.event = "call"]_vars
  /\ []((cb.pc = "writer" /\ cb.frame.co_name = "stop_trace")
          => Top(out).frame.fn_name = "stop_trace")
  /\ []((StopFrame /\ Top(frames).traced /\ Top(frames).phase = "body")
          => (hook # None /\ hook = lastStarted /\ Top(lastTrail) = "start_trace"))
  /\ [][(StopFrame /\ Top(frames).phase = "body" /\ frames' = Pop(frames))
          => hook' = None]_vars

C18_Witness ==
  /\ cb.pc = "idle"
  /\ hook = None
  /\ frames = <<>>
  /\ hist # <<>>
  /\ Top(hist).op = "stop_trace" /\ Top(hist).result = "ok"
  /\ out # <<>>
  /\ Top(out).frame.fn_name = "stop_trace"

\* C19: stop_trace called on one engine while another engine's callback is
\* installed empties the slot all the same, and the other engine then receives
\* nothing until start_trace is called.
C19_StopIgnoresOwner ==
  /\ [][(StopFrame /\ Top(frames).phase = "body" /\ hook # None
         /\ hook # Top(frames).self /\ frames' = Pop(frames))
          => hook' = None]_vars
  /\ []((hist # <<>> /\ Top(hist).op = "stop_trace" /\ Top(hist).result = "ok")
          => (hook = None /\ cb.pc = "idle"))

C19_Witness ==
  /\ cb.pc = "idle"
  /\ hook = None
  /\ lastStarted = "B"
  /\ hist # <<>>
  /\ Top(hist) = [op |-> "stop_trace", self |-> "A", result |-> "ok", changed |-> TRUE]
  /\ Len(hist) = 2
  /\ hist[1].op = "start_trace" /\ hist[1].self = "B"

====
